---- MODULE Spec2Model ----
(***************************************************************************)
(* Model of the OpenAI text-to-speech voice plugin: the provider class     *)
(* (constructor, validateConfig, synthesize, streamSynthesize,             *)
(* healthCheck) and the plugin lifecycle (init, shutdown).                 *)
(*                                                                         *)
(* The repository holds two revisions of the plugin module: src/index.ts   *)
(* and src/unnamed/part_004.  Both are modelled; the variable `revision`   *)
(* says which one is loaded.  They differ in the synthesize timeout, in    *)
(* the info line logged by init and in shutdown.                           *)
(*                                                                         *)
(* Conventions.  An optional JavaScript value is a set with at most one    *)
(* element: {} is undefined, {v} is the value v.  Speeds are kept in       *)
(* hundredths (25 is 0.25, 400 is 4.0).  A message is a sequence of text   *)
(* fragments whose concatenation is the JavaScript string.                 *)
(***************************************************************************)
EXTENDS Integers, Sequences, FiniteSets, TLC

VARIABLES
    revision,      \* which revision of the plugin module is loaded
    env,           \* process.env.OPENAI_API_KEY
    hostConfig,    \* what ctx.getConfig() returns
    objects,       \* the OpenAITTSProvider objects constructed so far, by id
    ctx,           \* module-level `ctx` (part_004 only)
    provider,      \* module-level `provider`: the id of an object, or undefined
    hostProviders, \* ids of the objects the host received by registerTTSProvider
    shutdownCount, \* number of shutdown calls so far
    registerCount, \* number of ctx.registerTTSProvider calls so far
    unregisterCount, \* number of ctx.unregisterExtension("tts") calls so far
    lastInit,      \* what the most recent init call did
    lastShutdown,  \* what the most recent shutdown call did
    calls          \* the calls on provider objects the host has made, by slot

vars == <<revision, env, hostConfig, objects, ctx, provider, hostProviders,
          shutdownCount, registerCount, unregisterCount, lastInit,
          lastShutdown, calls>>

lifecycleVars == <<objects, ctx, provider, hostProviders, shutdownCount,
                   registerCount, unregisterCount, lastInit, lastShutdown>>

-----------------------------------------------------------------------------
(* Bounds *)

MaxInits == 2

MaxShutdowns == 2

MaxCalls == 2

-----------------------------------------------------------------------------
(* JavaScript values *)

Undefined == {}

Some(v) == {v}

IsDefined(o) == o # {}

Get(o) == CHOOSE v \in o : TRUE

\* a || b on an optional string: "" and undefined are falsy
StrOr(o, b) == IF o # {} /\ Get(o) # "" THEN Get(o) ELSE b

\* a || b on an optional number: 0 and undefined are falsy
NumOr(o, b) == IF o # {} /\ Get(o) # 0 THEN Get(o) ELSE b

\* a ?? b: only undefined falls through
Nullish(o, b) == IF o # {} THEN Get(o) ELSE b

\* Array.prototype.join, as text fragments
RECURSIVE Join(_, _)
Join(arr, sep) ==
    IF Len(arr) = 0 THEN <<>>
    ELSE IF Len(arr) = 1 THEN <<arr[1]>>
    ELSE <<arr[1], sep>> \o Join(Tail(arr), sep)

\* Array.prototype.includes
Includes(arr, v) == \E i \in 1..Len(arr) : arr[i] = v

\* the decimal digits JavaScript prints for the number h/100
FormatNumber(h) ==
    LET a == IF h < 0 THEN -h ELSE h
        sign == IF h < 0 THEN "-" ELSE ""
        ip == ToString(a \div 100)
        fp == a % 100
    IN  IF fp = 0 THEN sign \o ip
        ELSE IF fp % 10 = 0 THEN sign \o ip \o "." \o ToString(fp \div 10)
        ELSE IF fp < 10 THEN sign \o ip \o ".0" \o ToString(fp)
        ELSE sign \o ip \o "." \o ToString(fp)

\* String.prototype.includes on messages: the fragments of `needle` occur
\* consecutively in `msg`
Contains(msg, needle) ==
    \E i \in 0..(Len(msg) - Len(needle)) :
        \A j \in 1..Len(needle) : msg[i + j] = needle[j]

-----------------------------------------------------------------------------
(* Configuration *)

DEFAULT_CONFIG ==
    [apiKey |-> Undefined, model |-> "gpt-4o-mini-tts", voice |-> "coral",
     speed |-> 100, instructions |-> Undefined]

\* ids of OPENAI_VOICES, in order
OPENAI_VOICES ==
    <<"alloy", "ash", "ballad", "coral", "echo", "fable", "nova", "onyx",
      "sage", "shimmer", "verse", "marin", "cedar">>

validModels == <<"gpt-4o-mini-tts", "tts-1", "tts-1-hd">>

MinSpeed == 25

MaxSpeed == 400

\* new OpenAITTSProvider(config)
NewProvider(config, environment) ==
    [apiKey |-> StrOr(config.apiKey, StrOr(environment, "")),
     model |-> StrOr(config.model, DEFAULT_CONFIG.model),
     defaultVoice |-> StrOr(config.voice, DEFAULT_CONFIG.voice),
     speed |-> NumOr(config.speed, DEFAULT_CONFIG.speed),
     instructions |-> config.instructions]

\* validateConfig as it would be without its speed check
validateConfig_noSpeedCheck(p) ==
    IF p.apiKey = "" THEN
        [threw |-> TRUE,
         message |-> <<"OPENAI_API_KEY ", "required", " for OpenAI TTS">>]
    ELSE IF ~Includes(OPENAI_VOICES, p.defaultVoice) THEN
        [threw |-> TRUE,
         message |-> <<"Invalid voice", ": ", p.defaultVoice, ". Valid: ">>
                     \o Join(OPENAI_VOICES, ", ")]
    ELSE IF ~Includes(validModels, p.model) THEN
        [threw |-> TRUE,
         message |-> <<"Invalid model", ": ", p.model, ". Valid: ">>
                     \o Join(validModels, ", ")]
    ELSE [threw |-> FALSE, message |-> <<>>]

\* provider.validateConfig(): the first check that fails throws
validateConfig(p) ==
    IF p.apiKey = "" THEN
        [threw |-> TRUE,
         message |-> <<"OPENAI_API_KEY ", "required", " for OpenAI TTS">>]
    ELSE IF ~Includes(OPENAI_VOICES, p.defaultVoice) THEN
        [threw |-> TRUE,
         message |-> <<"Invalid voice", ": ", p.defaultVoice, ". Valid: ">>
                     \o Join(OPENAI_VOICES, ", ")]
    ELSE IF p.speed < MinSpeed \/ p.speed > MaxSpeed THEN
        [threw |-> TRUE,
         message |-> <<"Speed must be between 0.25 and 4.0, got: ",
                       FormatNumber(p.speed)>>]
    ELSE IF ~Includes(validModels, p.model) THEN
        [threw |-> TRUE,
         message |-> <<"Invalid model", ": ", p.model, ". Valid: ">>
                     \o Join(validModels, ", ")]
    ELSE [threw |-> FALSE, message |-> <<>>]

-----------------------------------------------------------------------------
(* Inputs *)

Revisions == {"index_ts", "part_004"}

EnvInputs == {Undefined, Some(""), Some("sk-env-key")}

ApiKeyInputs == {Undefined, Some(""), Some("sk-test-key")}

ModelInputs ==
    {Undefined, Some(""), Some("gpt-4o-mini-tts"), Some("tts-1"),
     Some("tts-1-hd"), Some("gpt-4o")}

VoiceInputs ==
    {Undefined, Some(""), Some("alloy"), Some("cedar"), Some("invalid-voice"),
     Some("Coral")}

SpeedInputs ==
    {Undefined, Some(0), Some(-100), Some(24), Some(25), Some(100), Some(400),
     Some(401)}

InstructionsInputs == {Undefined, Some(""), Some("Speak calmly")}

\* every config the validation claims range over
Configs ==
    [apiKey : ApiKeyInputs, model : ModelInputs, voice : VoiceInputs,
     speed : SpeedInputs, instructions : InstructionsInputs]

\* the configs the host switches between in the lifecycle and call
\* specifications: one valid config per model, and one invalid config per
\* validation check
mockConfig ==
    [apiKey |-> Some("sk-test-key"), model |-> Undefined, voice |-> Undefined,
     speed |-> Undefined, instructions |-> Undefined]

HostConfigs ==
    {mockConfig,
     [mockConfig EXCEPT !.model = Some("tts-1"), !.voice = Some("alloy"),
                        !.speed = Some(25),
                        !.instructions = Some("Speak calmly")],
     [mockConfig EXCEPT !.model = Some("tts-1-hd"), !.speed = Some(400),
                        !.instructions = Some("")],
     [mockConfig EXCEPT !.instructions = Some("Speak calmly"),
                        !.speed = Some(0)],
     [mockConfig EXCEPT !.apiKey = Undefined],
     [mockConfig EXCEPT !.voice = Some("invalid-voice")],
     [mockConfig EXCEPT !.speed = Some(401)],
     [mockConfig EXCEPT !.model = Some("gpt-4o")]}

-----------------------------------------------------------------------------
(* Plugin lifecycle *)

pluginCtx == "pluginCtx"

\* `${error}` for an Error object
ErrorToString(message) == <<"Error: ">> \o message

\* init as it would be if it registered before it validated
initTry_registerFirst(id, p, config, info) ==
    LET v == validateConfig(p)
    IN  IF v.threw
        THEN [config |-> config, object |-> id, registered |-> <<id>>,
              infos |-> <<>>,
              errors |-> << <<"Failed to register OpenAI TTS: ">>
                            \o ErrorToString(v.message) >>,
              raised |-> FALSE]
        ELSE [config |-> config, object |-> id, registered |-> <<id>>,
              infos |-> <<info>>, errors |-> <<>>, raised |-> FALSE]

\* the try / catch of init on the new object `id`: validate, register, log
initTry(id, p, config, info) ==
    LET v == validateConfig(p)
    IN  IF v.threw
        THEN [config |-> config, object |-> id, registered |-> <<>>,
              infos |-> <<>>,
              errors |-> << <<"Failed to register OpenAI TTS: ">>
                            \o ErrorToString(v.message) >>,
              raised |-> FALSE]
        ELSE [config |-> config, object |-> id, registered |-> <<id>>,
              infos |-> <<info>>, errors |-> <<>>, raised |-> FALSE]

\* what an init call leaves behind: the new object, the module-level
\* `provider`, the host's registry and log
initEffects(p, outcome) ==
    /\ objects' = Append(objects, p)
    /\ provider' = Some(outcome.object)
    /\ lastInit' = Some(outcome)
    /\ hostProviders' = hostProviders
                        \cup {outcome.registered[i] :
                                i \in 1..Len(outcome.registered)}
    /\ registerCount' = registerCount + Len(outcome.registered)

\* plugin.init(ctx) of src/index.ts
init_index_ts ==
    /\ revision = "index_ts"
    /\ Len(objects) < MaxInits
    /\ LET config == hostConfig
           p == NewProvider(config, env)
           info == <<"OpenAI TTS provider registered (model: ",
                     Nullish(config.model, DEFAULT_CONFIG.model),
                     ", voice: ",
                     Nullish(config.voice, DEFAULT_CONFIG.voice), ")">>
       IN  initEffects(p, initTry(Len(objects) + 1, p, config, info))
    /\ UNCHANGED <<revision, env, hostConfig, ctx, shutdownCount,
                   unregisterCount, lastShutdown, calls>>

\* plugin.init(pluginCtx) of src/unnamed/part_004
init_part_004 ==
    /\ revision = "part_004"
    /\ Len(objects) < MaxInits
    /\ ctx' = Some(pluginCtx)
    /\ LET config == hostConfig
           p == NewProvider(config, env)
           info == <<"OpenAI TTS provider registered (model: ", p.model,
                     ", voice: ", p.defaultVoice, ")">>
       IN  initEffects(p, initTry(Len(objects) + 1, p, config, info))
    /\ UNCHANGED <<revision, env, hostConfig, shutdownCount, unregisterCount,
                   lastShutdown, calls>>

\* what a shutdown leaves in lastShutdown: the unregister calls it made,
\* whether the host threw at one and whether shutdown raised, the module's
\* `provider` before it, the number of inits so far, and `repeat`: no init
\* has run since the shutdown before this one

\* plugin.shutdown() of src/index.ts
shutdown_index_ts ==
    /\ revision = "index_ts"
    /\ shutdownCount < MaxShutdowns
    /\ provider' = Undefined
    /\ shutdownCount' = shutdownCount + 1
    /\ lastShutdown' = Some([unregistered |-> <<>>, hostThrew |-> FALSE,
                             raised |-> FALSE, before |-> provider,
                             inits |-> Len(objects),
                             repeat |-> /\ lastShutdown # Undefined
                                        /\ Get(lastShutdown).inits
                                             = Len(objects)])
    /\ UNCHANGED <<revision, env, hostConfig, objects, ctx, hostProviders,
                   registerCount, unregisterCount, lastInit, calls>>

\* shutdown of part_004 as it would be if it left `provider` and `ctx` set
shutdown_part_004_keepsReferences ==
    /\ revision = "part_004"
    /\ shutdownCount < MaxShutdowns
    /\ \E hostThrows \in BOOLEAN :
        LET called == ctx # Undefined /\ provider # Undefined
        IN  /\ hostThrows => called
            /\ unregisterCount' = unregisterCount + (IF called THEN 1 ELSE 0)
            /\ lastShutdown' =
                 Some([unregistered |-> IF called THEN <<"tts">> ELSE <<>>,
                       hostThrew |-> hostThrows, raised |-> FALSE,
                       before |-> provider, inits |-> Len(objects),
                       repeat |-> /\ lastShutdown # Undefined
                                  /\ Get(lastShutdown).inits = Len(objects)])
    /\ shutdownCount' = shutdownCount + 1
    /\ UNCHANGED <<revision, env, hostConfig, objects, hostProviders,
                   registerCount, lastInit, calls, provider, ctx>>

\* plugin.shutdown() of src/unnamed/part_004; the host's unregisterExtension
\* may throw, which shutdown swallows
shutdown_part_004 ==
    /\ revision = "part_004"
    /\ shutdownCount < MaxShutdowns
    /\ \E hostThrows \in BOOLEAN :
        LET called == ctx # Undefined /\ provider # Undefined
        IN  /\ hostThrows => called
            /\ unregisterCount' = unregisterCount + (IF called THEN 1 ELSE 0)
            /\ lastShutdown' =
                 Some([unregistered |-> IF called THEN <<"tts">> ELSE <<>>,
                       hostThrew |-> hostThrows, raised |-> FALSE,
                       before |-> provider, inits |-> Len(objects),
                       repeat |-> /\ lastShutdown # Undefined
                                  /\ Get(lastShutdown).inits = Len(objects)])
    /\ provider' = Undefined
    /\ ctx' = Undefined
    /\ shutdownCount' = shutdownCount + 1
    /\ UNCHANGED <<revision, env, hostConfig, objects, hostProviders,
                   registerCount, lastInit, calls>>

\* the operator changes the plugin's configuration in the host
reconfigure ==
    /\ \E c \in HostConfigs : c # hostConfig /\ hostConfig' = c
    /\ UNCHANGED <<revision, env, lifecycleVars, calls>>

-----------------------------------------------------------------------------
(* IEEE 754 double arithmetic, as far as the duration computation needs it. *)
(* A positive double is [bits, exp]: 53 bits, most significant first and    *)
(* leading bit 1, standing for the integer they spell times 2^exp.  Zero    *)
(* has no bits.                                                             *)

Precision == 53

RECURSIVE IntBits(_)
IntBits(k) == IF k = 0 THEN <<>> ELSE Append(IntBits(k \div 2), k % 2)

RECURSIVE BitsToInt(_)
BitsToInt(bits) ==
    IF Len(bits) = 0 THEN 0
    ELSE 2 * BitsToInt(SubSeq(bits, 1, Len(bits) - 1)) + bits[Len(bits)]

\* bits + 1, one bit longer when every bit is 1
RECURSIVE Increment(_)
Increment(bits) ==
    IF Len(bits) = 0 THEN <<1>>
    ELSE IF bits[Len(bits)] = 0
         THEN SubSeq(bits, 1, Len(bits) - 1) \o <<1>>
         ELSE Increment(SubSeq(bits, 1, Len(bits) - 1)) \o <<0>>

\* round to nearest, ties to even: `up` says the discarded part is above
\* one half, `tie` that it is exactly one half
RoundNearestEven(bits, exp, up, tie) ==
    IF up \/ (tie /\ bits[Len(bits)] = 1)
    THEN LET inc == Increment(bits)
         IN  IF Len(inc) > Len(bits)
             THEN [bits |-> SubSeq(inc, 1, Len(bits)), exp |-> exp + 1]
             ELSE [bits |-> inc, exp |-> exp]
    ELSE [bits |-> bits, exp |-> exp]

\* binary long division: the bits of the quotient so far, the remainder
\* and the exponent of the last bit
RECURSIVE DivideStep(_, _, _, _)
DivideStep(bits, rem, exp, den) ==
    IF Len(bits) = Precision
    THEN RoundNearestEven(bits, exp, 2 * rem > den, 2 * rem = den)
    ELSE LET b == IF 2 * rem >= den THEN 1 ELSE 0
         IN  DivideStep(IF Len(bits) = 0 /\ b = 0 THEN <<>>
                        ELSE Append(bits, b),
                        2 * rem - b * den, exp - 1, den)

\* the double nearest to num / den
Divide(num, den) ==
    IF num = 0 THEN [bits |-> <<>>, exp |-> 0]
    ELSE DivideStep(IntBits(num \div den), num % den, 0, den)

\* bits times k, least significant bit first, as a bit sequence (the test on
\* carry makes TLC evaluate it at every step)
RECURSIVE TimesStep(_, _, _)
TimesStep(bits, k, carry) ==
    IF Len(bits) = 0 \/ carry < 0 THEN IntBits(carry)
    ELSE LET t == bits[Len(bits)] * k + carry
         IN  Append(TimesStep(SubSeq(bits, 1, Len(bits) - 1), k, t \div 2),
                    t % 2)

\* the double nearest to d * k, k a small positive integer
Times(d, k) ==
    IF Len(d.bits) = 0 THEN d
    ELSE LET product == TimesStep(d.bits, k, 0)
             drop == Len(product) - Precision
             kept == SubSeq(product, 1, Precision)
             guard == product[Precision + 1]
             sticky == \E i \in (Precision + 2)..Len(product) : product[i] = 1
         IN  IF drop <= 0 THEN [bits |-> product, exp |-> d.exp]
             ELSE RoundNearestEven(kept, d.exp + drop,
                                   guard = 1 /\ sticky, guard = 1 /\ ~sticky)

\* Math.round of a double below 2^31: the nearest integer, a tie going up
MathRound(d) ==
    LET n == Len(d.bits)
        fraction == -d.exp
    IN  IF n = 0 \/ fraction > n THEN 0
        ELSE IF fraction <= 0 THEN BitsToInt(d.bits)
        ELSE BitsToInt(SubSeq(d.bits, 1, n - fraction))
             + d.bits[n - fraction + 1]

-----------------------------------------------------------------------------
(* Requests *)

SynthesizeTimeoutMs == 30000

HealthCheckTimeoutMs == 5000

\* options?.field
OptionalChain(options, field) ==
    IF options = Undefined THEN Undefined ELSE Get(options)[field]

\* a truthy optional string
Truthy(o) == o # Undefined /\ Get(o) # ""

\* the `body` object synthesize builds; instructions is undefined when the
\* key is not set
synthesizeBody(p, text, options) ==
    LET voice == StrOr(OptionalChain(options, "voice"), p.defaultVoice)
        speed == NumOr(OptionalChain(options, "speed"), p.speed)
        effectiveInstructions ==
            IF Truthy(OptionalChain(options, "instructions"))
            THEN OptionalChain(options, "instructions")
            ELSE p.instructions
    IN  [model |-> p.model, input |-> text, voice |-> voice,
         response_format |-> "pcm", speed |-> speed,
         instructions |-> IF Truthy(effectiveInstructions)
                             /\ p.model = "gpt-4o-mini-tts"
                          THEN effectiveInstructions ELSE Undefined]

\* a JSON string literal (the texts of the model need no escaping)
Quote(str) == "\"" \o str \o "\""

\* JSON.stringify(body): the members in insertion order, each value as its
\* JSON literal; a key whose value is undefined is left out
JSONstringify(body) ==
    << <<"model", Quote(body.model)>>, <<"input", Quote(body.input)>>,
       <<"voice", Quote(body.voice)>>,
       <<"response_format", Quote(body.response_format)>>,
       <<"speed", FormatNumber(body.speed)>> >>
    \o (IF body.instructions # Undefined
        THEN << <<"instructions", Quote(Get(body.instructions))>> >>
        ELSE <<>>)

\* the init object synthesize passes to fetch in src/index.ts: no signal
fetchInit_index_ts(p, body) ==
    [url |-> "https://api.openai.com/v1/audio/speech", method |-> "POST",
     Authorization |-> "Bearer " \o p.apiKey,
     ContentType |-> Some("application/json"),
     body |-> Some(JSONstringify(body)), signal |-> Undefined]

\* the init object synthesize passes to fetch in src/unnamed/part_004
fetchInit_part_004(p, body) ==
    [url |-> "https://api.openai.com/v1/audio/speech", method |-> "POST",
     Authorization |-> "Bearer " \o p.apiKey,
     ContentType |-> Some("application/json"),
     body |-> Some(JSONstringify(body)),
     signal |-> Some(SynthesizeTimeoutMs)]

\* the request healthCheck issues
healthCheckRequest(p) ==
    [url |-> "https://api.openai.com/v1/models", method |-> "GET",
     Authorization |-> "Bearer " \o p.apiKey, ContentType |-> Undefined,
     body |-> Undefined, signal |-> Some(HealthCheckTimeoutMs)]

-----------------------------------------------------------------------------
(* Responses *)

\* a response body has two readings: the bytes arrayBuffer() resolves to, as
\* runs of equal bytes, and the string text() resolves to
pcmBody(n) ==
    [bytes |-> IF n = 0 THEN <<>> ELSE <<[byte |-> 0, count |-> n]>>,
     text |-> IF n = 0 THEN "" ELSE "<" \o ToString(n) \o " NUL>"]

unauthorizedBody ==
    [bytes |-> <<[byte |-> 85, count |-> 1], [byte |-> 110, count |-> 1],
                 [byte |-> 97, count |-> 1], [byte |-> 117, count |-> 1],
                 [byte |-> 116, count |-> 1], [byte |-> 104, count |-> 1],
                 [byte |-> 111, count |-> 1], [byte |-> 114, count |-> 1],
                 [byte |-> 105, count |-> 1], [byte |-> 122, count |-> 1],
                 [byte |-> 101, count |-> 1], [byte |-> 100, count |-> 1]>>,
     text |-> "Unauthorized"]

\* Response.ok
ResponseOk(response) == response.status >= 200 /\ response.status <= 299

\* Buffer.length
RECURSIVE ByteLength(_)
ByteLength(bytes) ==
    IF Len(bytes) = 0 THEN 0 ELSE bytes[1].count + ByteLength(Tail(bytes))

\* how a fetch can settle: any response, a network failure, and the timeout
\* when the request carries a signal
FetchOutcomes(request, responses) ==
    {[fulfilled |-> TRUE, response |-> Some(r), error |-> Undefined] :
        r \in responses}
    \cup {[fulfilled |-> FALSE, response |-> Undefined,
           error |-> Some([name |-> "TypeError",
                           message |-> <<"fetch failed">>])]}
    \cup (IF request.signal # Undefined
          THEN {[fulfilled |-> FALSE, response |-> Undefined,
                 error |-> Some([name |-> "TimeoutError",
                                 message |-> <<"The operation was aborted due to timeout">>])]}
          ELSE {})

-----------------------------------------------------------------------------
(* Provider calls *)

sampleRate == 24000

bytesPerSample == 2

\* the result as it would be if the duration were computed from bytes, not
\* from 2-byte samples
synthesisResult_bytesAsSamples(bytes) ==
    LET length == ByteLength(bytes)
        durationMs == MathRound(Times(Divide(length, sampleRate), 1000))
    IN  [audio |-> bytes, format |-> "pcm_s16le", sampleRate |-> sampleRate,
         durationMs |-> durationMs]

\* the result synthesize returns for the payload `bytes`; samples is
\* length / 2 exactly, so the quotient samples / sampleRate is the double
\* nearest to length / (2 * 24000)
synthesisResult(bytes) ==
    LET length == ByteLength(bytes)
        durationMs ==
            MathRound(Times(Divide(length, bytesPerSample * sampleRate),
                            1000))
    IN  [audio |-> bytes, format |-> "pcm_s16le", sampleRate |-> sampleRate,
         durationMs |-> durationMs]

\* the Error synthesize throws for a response that is not ok
synthesisFailed(response) ==
    [name |-> "Error",
     message |-> <<"OpenAI TTS failed: ", ToString(response.status), " - ",
                   response.body.text>>]

\* a free call slot
NoCall ==
    [kind |-> "none", pc |-> "idle", this |-> 0, text |-> "",
     options |-> Undefined, requests |-> <<>>, response |-> Undefined,
     reads |-> <<>>, result |-> Undefined, healthy |-> Undefined,
     error |-> Undefined, chunks |-> <<>>]

\* synthesize up to its first await: build the body, call fetch
synthesizeStart(call, p, rev) ==
    LET body == synthesizeBody(p, call.text, call.options)
    IN  [call EXCEPT
           !.pc = "fetching",
           !.requests = Append(@, IF rev = "index_ts"
                                  THEN fetchInit_index_ts(p, body)
                                  ELSE fetchInit_part_004(p, body))]

\* synthesize as it would be if it decoded the body without looking at
\* response.ok
synthesizeAfterFetch_noOkCheck(call, outcome) ==
    IF ~outcome.fulfilled
    THEN [call EXCEPT !.pc = "threw", !.error = outcome.error]
    ELSE [call EXCEPT !.pc = "reading", !.response = outcome.response,
                      !.reads = Append(@, "arrayBuffer")]

\* synthesize from the settling of fetch to its next await: a rejection
\* propagates; otherwise read the body as text when the response is not ok,
\* as bytes when it is
synthesizeAfterFetch(call, outcome) ==
    IF ~outcome.fulfilled
    THEN [call EXCEPT !.pc = "threw", !.error = outcome.error]
    ELSE IF ~ResponseOk(Get(outcome.response))
    THEN [call EXCEPT !.pc = "reading", !.response = outcome.response,
                      !.reads = Append(@, "text")]
    ELSE [call EXCEPT !.pc = "reading", !.response = outcome.response,
                      !.reads = Append(@, "arrayBuffer")]

\* synthesize from the settling of the body read to its end; a
\* streamSynthesize generator then yields the audio as its one chunk
synthesizeAfterRead(call) ==
    LET response == Get(call.response)
    IN  IF call.reads[Len(call.reads)] = "text"
        THEN [call EXCEPT !.pc = "threw",
                          !.error = Some(synthesisFailed(response))]
        ELSE LET result == synthesisResult(response.body.bytes)
             IN  IF call.kind = "streamSynthesize"
                 THEN [call EXCEPT !.pc = "yielded",
                                   !.result = Some(result),
                                   !.chunks = Append(@, result.audio)]
                 ELSE [call EXCEPT !.pc = "returned",
                                   !.result = Some(result)]

\* healthCheck as it would be without its try / catch: a rejected fetch
\* rejects the call
healthCheckAfterFetch_propagates(call, outcome) ==
    IF outcome.fulfilled
    THEN [call EXCEPT !.pc = "returned", !.response = outcome.response,
                      !.healthy = Some(ResponseOk(Get(outcome.response)))]
    ELSE [call EXCEPT !.pc = "threw", !.error = outcome.error]

\* healthCheck from the settling of fetch to its end
healthCheckAfterFetch(call, outcome) ==
    IF outcome.fulfilled
    THEN [call EXCEPT !.pc = "returned", !.response = outcome.response,
                      !.healthy = Some(ResponseOk(Get(outcome.response)))]
    ELSE [call EXCEPT !.pc = "returned", !.healthy = Some(FALSE)]

\* provider.synthesize(text, options) on a registered object
synthesize(i, id, text, options) ==
    /\ calls[i].pc = "idle"
    /\ id \in hostProviders
    /\ calls' = [calls EXCEPT ![i] =
                   synthesizeStart([NoCall EXCEPT !.kind = "synthesize",
                                                  !.this = id,
                                                  !.text = text,
                                                  !.options = options],
                                   objects[id], revision)]
    /\ UNCHANGED <<revision, env, hostConfig, lifecycleVars>>

\* provider.streamSynthesize(text, options): the generator is created; its
\* body runs at the first next()
streamSynthesize(i, id, text, options) ==
    /\ calls[i].pc = "idle"
    /\ id \in hostProviders
    /\ calls' = [calls EXCEPT ![i] =
                   [NoCall EXCEPT !.kind = "streamSynthesize",
                                  !.pc = "created", !.this = id,
                                  !.text = text, !.options = options]]
    /\ UNCHANGED <<revision, env, hostConfig, lifecycleVars>>

\* the generator as it would be if it looped: a next() after the chunk runs
\* synthesize again
streamNext_noEnd(i) ==
    /\ calls[i].kind = "streamSynthesize"
    /\ calls[i].pc \in {"created", "yielded"}
    /\ calls' = [calls EXCEPT ![i] =
                   synthesizeStart(calls[i], objects[calls[i].this],
                                   revision)]
    /\ UNCHANGED <<revision, env, hostConfig, lifecycleVars>>

\* the consumer calls next() on the generator: the first call runs
\* synthesize, the call after the chunk ends the generator
streamNext(i) ==
    /\ calls[i].kind = "streamSynthesize"
    /\ calls[i].pc \in {"created", "yielded"}
    /\ calls' = [calls EXCEPT ![i] =
                   IF calls[i].pc = "created"
                   THEN synthesizeStart(calls[i], objects[calls[i].this],
                                        revision)
                   ELSE [calls[i] EXCEPT !.pc = "returned"]]
    /\ UNCHANGED <<revision, env, hostConfig, lifecycleVars>>

\* the fetch of a synthesize call settles
synthesizeFetched(i, responses) ==
    /\ calls[i].kind \in {"synthesize", "streamSynthesize"}
    /\ calls[i].pc = "fetching"
    /\ \E outcome \in FetchOutcomes(calls[i].requests[Len(calls[i].requests)],
                                    responses) :
         calls' = [calls EXCEPT ![i] = synthesizeAfterFetch(calls[i], outcome)]
    /\ UNCHANGED <<revision, env, hostConfig, lifecycleVars>>

\* the body read as it would be if synthesize kept the response in a field
\* of the provider, shared by its calls: the result is built from the
\* response that arrived last on the provider, here call 1's when it has one
synthesizeRead_sharedResponse(i) ==
    /\ calls[i].kind \in {"synthesize", "streamSynthesize"}
    /\ calls[i].pc = "reading"
    /\ LET shared == IF /\ calls[1].response # Undefined
                        /\ calls[1].reads = calls[i].reads
                     THEN calls[1].response ELSE calls[i].response
           settled == synthesizeAfterRead([calls[i] EXCEPT
                                             !.response = shared])
       IN  calls' = [calls EXCEPT ![i] =
                       [settled EXCEPT !.response = calls[i].response]]
    /\ UNCHANGED <<revision, env, hostConfig, lifecycleVars>>

\* the body read of a synthesize call settles
synthesizeRead(i) ==
    /\ calls[i].kind \in {"synthesize", "streamSynthesize"}
    /\ calls[i].pc = "reading"
    /\ calls' = [calls EXCEPT ![i] = synthesizeAfterRead(calls[i])]
    /\ UNCHANGED <<revision, env, hostConfig, lifecycleVars>>

\* provider.healthCheck() on a registered object
healthCheck(i, id) ==
    /\ calls[i].pc = "idle"
    /\ id \in hostProviders
    /\ calls' = [calls EXCEPT ![i] =
                   [NoCall EXCEPT !.kind = "healthCheck", !.pc = "fetching",
                                  !.this = id,
                                  !.requests =
                                     <<healthCheckRequest(objects[id])>>]]
    /\ UNCHANGED <<revision, env, hostConfig, lifecycleVars>>

\* the fetch of a healthCheck call settles
healthCheckFetched(i, responses) ==
    /\ calls[i].kind = "healthCheck"
    /\ calls[i].pc = "fetching"
    /\ \E outcome \in FetchOutcomes(calls[i].requests[1], responses) :
         calls' = [calls EXCEPT ![i] = healthCheckAfterFetch(calls[i], outcome)]
    /\ UNCHANGED <<revision, env, hostConfig, lifecycleVars>>

\* the host calls provider.validateConfig() on a registered object
validateConfigCall(i, id) ==
    /\ calls[i].pc = "idle"
    /\ id \in hostProviders
    /\ LET v == validateConfig(objects[id])
       IN  calls' = [calls EXCEPT ![i] =
                       [NoCall EXCEPT
                          !.kind = "validateConfig", !.this = id,
                          !.pc = IF v.threw THEN "threw" ELSE "returned",
                          !.error = IF v.threw
                                    THEN Some([name |-> "Error",
                                               message |-> v.message])
                                    ELSE Undefined]]
    /\ UNCHANGED <<revision, env, hostConfig, lifecycleVars>>

\* the caller is done with a finished call (or abandons a generator)
discard(i) ==
    /\ calls[i].pc \in {"returned", "threw", "yielded"}
    /\ calls' = [calls EXCEPT ![i] = NoCall]
    /\ UNCHANGED <<revision, env, hostConfig, lifecycleVars>>

-----------------------------------------------------------------------------
(* Call inputs *)

Texts == {"", "Hello world"}

OptionVoices == {Undefined, Some(""), Some("nova"), Some("robot")}

OptionSpeeds == {Undefined, Some(0), Some(150), Some(500)}

OptionInstructions == {Undefined, Some(""), Some("Whisper")}

\* the options argument: left out, or an object with any of the three fields
OptionsInputs ==
    {Undefined}
    \cup {Some(o) : o \in [voice : OptionVoices, speed : OptionSpeeds,
                           instructions : OptionInstructions]}

PayloadSizes == {0, 24, 25, 24024, 48000}

Responses ==
    {[status |-> 200, body |-> pcmBody(n)] : n \in PayloadSizes}
    \cup {[status |-> 299, body |-> pcmBody(24)]}
    \cup {[status |-> st, body |-> b] :
            st \in {401, 500}, b \in {unauthorizedBody, pcmBody(0)}}
    \cup {[status |-> 300, body |-> unauthorizedBody]}

\* the few inputs of the specifications that interleave calls
FewOptions ==
    {Undefined,
     Some([voice |-> Some("nova"), speed |-> Some(150),
           instructions |-> Some("Whisper")])}

FewResponses ==
    {[status |-> 200, body |-> pcmBody(48000)],
     [status |-> 401, body |-> unauthorizedBody]}

-----------------------------------------------------------------------------
(* Specifications *)

\* the module as loaded, before any init
Loaded ==
    /\ revision \in Revisions
    /\ env \in EnvInputs
    /\ objects = <<>>
    /\ ctx = Undefined
    /\ provider = Undefined
    /\ hostProviders = {}
    /\ shutdownCount = 0
    /\ registerCount = 0
    /\ unregisterCount = 0
    /\ lastInit = Undefined
    /\ lastShutdown = Undefined
    /\ calls = [i \in 1..MaxCalls |-> NoCall]

Init == Loaded /\ hostConfig \in HostConfigs

\* every operation, one caller at a time, few call inputs
Next ==
    \/ init_index_ts
    \/ init_part_004
    \/ shutdown_index_ts
    \/ shutdown_part_004
    \/ \E id \in hostProviders, options \in FewOptions :
         synthesize(1, id, "Hello world", options)
    \/ \E id \in hostProviders, options \in FewOptions :
         streamSynthesize(1, id, "Hello world", options)
    \/ streamNext(1)
    \/ synthesizeFetched(1, FewResponses)
    \/ synthesizeRead(1)
    \/ \E id \in hostProviders : healthCheck(1, id)
    \/ healthCheckFetched(1, FewResponses)
    \/ \E id \in hostProviders : validateConfigCall(1, id)
    \/ discard(1)

Spec == Init /\ [][Next]_vars

\* synthesize alone, on every input and every response
InitSynthesize ==
    Loaded /\ env \in {Undefined, Some("sk-env-key")}
           /\ hostConfig \in HostConfigs

NextSynthesize ==
    \/ init_index_ts
    \/ init_part_004
    \/ \E id \in hostProviders, text \in Texts, options \in OptionsInputs :
         synthesize(1, id, text, options)
    \/ synthesizeFetched(1, Responses)
    \/ synthesizeRead(1)
    \/ discard(1)

SpecSynthesize == InitSynthesize /\ [][NextSynthesize]_vars

\* every config, lifecycle only
InitValidate == Loaded /\ hostConfig \in Configs

NextValidate ==
    \/ init_index_ts
    \/ init_part_004
    \/ shutdown_index_ts
    \/ shutdown_part_004

SpecValidate == InitValidate /\ [][NextValidate]_vars

\* the lifecycle with a host that changes the configuration between inits
NextLifecycle ==
    \/ init_index_ts
    \/ init_part_004
    \/ shutdown_index_ts
    \/ shutdown_part_004
    \/ reconfigure

SpecLifecycle == Init /\ [][NextLifecycle]_vars

\* several callers at once on one provider: one init, on a valid config, and
\* then calls that overlap in every way
InitConcurrent ==
    /\ Loaded
    /\ env = Undefined
    /\ hostConfig = [mockConfig EXCEPT !.speed = Some(25),
                                      !.instructions = Some("Speak calmly")]

ConcurrentResponses ==
    FewResponses \cup {[status |-> 200, body |-> pcmBody(24)]}

NextConcurrent ==
    \/ objects = <<>> /\ init_index_ts
    \/ objects = <<>> /\ init_part_004
    \/ \E i \in 1..MaxCalls, id \in hostProviders, options \in FewOptions :
         synthesize(i, id, "Hello world", options)
    \/ \E i \in 1..MaxCalls, id \in hostProviders, options \in FewOptions :
         streamSynthesize(i, id, "Hello world", options)
    \/ \E i \in 1..MaxCalls : streamNext(i)
    \/ \E i \in 1..MaxCalls : synthesizeFetched(i, ConcurrentResponses)
    \/ \E i \in 1..MaxCalls : synthesizeRead(i)
    \/ \E i \in 1..MaxCalls, id \in hostProviders : healthCheck(i, id)
    \/ \E i \in 1..MaxCalls : healthCheckFetched(i, ConcurrentResponses)
    \/ \E i \in 1..MaxCalls : discard(i)

SpecConcurrent == InitConcurrent /\ [][NextConcurrent]_vars

-----------------------------------------------------------------------------
(* Claims C1 - C5: validation and init *)

\* the 13 voice ids of the catalog
CatalogIds ==
    {"alloy", "ash", "ballad", "coral", "echo", "fable", "nova", "onyx",
     "sage", "shimmer", "verse", "marin", "cedar"}

ModelIds == {"gpt-4o-mini-tts", "tts-1", "tts-1-hd"}

\* some logged message contains the fragments `needle`
Logged(messages, needle) ==
    \E i \in 1..Len(messages) : Contains(messages[i], needle)

\* the message names every element of `ids`
Lists(message, ids) == \A v \in ids : Contains(message, <<v>>)

\* the config has no credential and the environment supplies none
NoCredential(config, environment) ==
    ~Truthy(config.apiKey) /\ ~Truthy(environment)

\* C1: init registers the provider exactly when validation succeeds: a
\* config that passes validateConfig is registered exactly once (the new
\* object, and nothing is logged as an error); a config that fails
\* validation registers nothing, has an error logged and nothing is raised
\* to the host; with no credential in the config or the environment nothing
\* is registered and the logged error contains "required".
C1_InitRegistersIffValid ==
    lastInit # Undefined =>
        LET o == Get(lastInit)
            v == validateConfig(NewProvider(o.config, env))
        IN  /\ ~o.raised
            /\ ~v.threw => /\ o.registered = <<o.object>>
                           /\ o.object \in hostProviders
                           /\ o.errors = <<>>
            /\ v.threw => /\ o.registered = <<>>
                          /\ o.object \notin hostProviders
                          /\ Len(o.errors) = 1
                          /\ Logged(o.errors, v.message)
            /\ NoCredential(o.config, env) =>
                  /\ o.registered = <<>>
                  /\ Logged(o.errors, <<"required">>)
            /\ registerCount = Cardinality(hostProviders)

\* C1 witness: init has run on a config without a credential, with no key
\* in the environment, and logged the error
C1_Witness ==
    /\ lastInit # Undefined
    /\ NoCredential(Get(lastInit).config, env)
    /\ Logged(Get(lastInit).errors, <<"required">>)
    /\ registerCount = 0

\* the ProviderConfig invariant: credential non-empty, voice in the catalog,
\* speed in [0.25, 4.0], model one of the three
ProviderConfigInvariant(p) ==
    /\ p.apiKey # ""
    /\ p.defaultVoice \in CatalogIds
    /\ p.speed >= 25 /\ p.speed <= 400
    /\ p.model \in ModelIds

\* C2: every provider init has registered satisfies the ProviderConfig
\* invariant, in every reachable state, and no step (synthesize,
\* streamSynthesize, healthCheck, validateConfig, shutdown, a later init)
\* changes a field of a provider object once it is constructed.
C2_RegisteredProvidersValid ==
    /\ [](\A id \in hostProviders : ProviderConfigInvariant(objects[id]))
    /\ [][\A id \in 1..Len(objects) : objects'[id] = objects[id]]_vars

\* C2 witness: a provider is registered, shutdown has run and a synthesize
\* call on the provider has returned since
C2_Witness ==
    /\ hostProviders # {}
    /\ shutdownCount > 0
    /\ calls[1].kind = "synthesize"
    /\ calls[1].pc = "returned"

\* the speed check of validateConfig failed
SpeedError(v) ==
    v.threw /\ Contains(v.message, <<"Speed must be between 0.25 and 4.0, got: ">>)

\* C3 (as stated): every speed supplied in the config that lies outside
\* [0.25, 4.0] makes validation of the provider built from it fail, with the
\* offending value in the message when the speed check is the one that
\* fails; a supplied speed from 0.25 to 4.0 never fails the speed check.
C3_SpeedOutsideRangeFails ==
    lastInit # Undefined =>
        LET o == Get(lastInit)
            p == objects[o.object]
            v == validateConfig(p)
        IN  o.config.speed # Undefined =>
              LET speed == Get(o.config.speed)
              IN  IF speed < 25 \/ speed > 400
                  THEN /\ v.threw
                       /\ (p.apiKey # "" /\ p.defaultVoice \in CatalogIds)
                            => /\ SpeedError(v)
                               /\ Contains(v.message, <<FormatNumber(speed)>>)
                  ELSE ~SpeedError(v)

\* C3, what the code does: the statement holds of every supplied speed but 0
C3_NonZeroSpeedOutsideRangeFails ==
    lastInit # Undefined =>
        LET o == Get(lastInit)
            p == objects[o.object]
            v == validateConfig(p)
        IN  (o.config.speed # Undefined /\ Get(o.config.speed) # 0) =>
              LET speed == Get(o.config.speed)
              IN  IF speed < 25 \/ speed > 400
                  THEN /\ v.threw
                       /\ (p.apiKey # "" /\ p.defaultVoice \in CatalogIds)
                            => /\ SpeedError(v)
                               /\ Contains(v.message, <<FormatNumber(speed)>>)
                  ELSE ~SpeedError(v)

\* C4 (as stated): every config whose voice is not one of the 13 catalog
\* ids, the credential being present, fails validation with a message that
\* lists every valid id, and init logs an error containing "Invalid voice".
C4_UnknownVoiceFails ==
    lastInit # Undefined =>
        LET o == Get(lastInit)
            p == objects[o.object]
            v == validateConfig(p)
        IN  (/\ o.config.voice # Undefined
             /\ Get(o.config.voice) \notin CatalogIds
             /\ p.apiKey # "") =>
                /\ v.threw
                /\ Lists(v.message, CatalogIds)
                /\ Logged(o.errors, <<"Invalid voice">>)
                /\ o.registered = <<>>

\* C4, what the code does: the statement holds of every voice but ""
C4_NonEmptyUnknownVoiceFails ==
    lastInit # Undefined =>
        LET o == Get(lastInit)
            p == objects[o.object]
            v == validateConfig(p)
        IN  (/\ Truthy(o.config.voice)
             /\ Get(o.config.voice) \notin CatalogIds
             /\ p.apiKey # "") =>
                /\ v.threw
                /\ Lists(v.message, CatalogIds)
                /\ Logged(o.errors, <<"Invalid voice">>)
                /\ o.registered = <<>>

\* C4 witness: init has run on a config with a credential and the voice
\* "invalid-voice", and logged the error
C4_Witness ==
    /\ lastInit # Undefined
    /\ Get(lastInit).config.voice = Some("invalid-voice")
    /\ objects[Get(lastInit).object].apiKey # ""
    /\ Logged(Get(lastInit).errors, <<"Invalid voice">>)

\* the model check of validateConfig failed
ModelError(v) == v.threw /\ Contains(v.message, <<"Invalid model">>)

\* C5 (as stated): every config whose model is not one of the three listed,
\* its credential, voice and speed being valid, fails validation with a
\* message that lists the valid models; each listed model passes the model
\* check.
C5_UnknownModelFails ==
    lastInit # Undefined =>
        LET o == Get(lastInit)
            p == objects[o.object]
            v == validateConfig(p)
        IN  o.config.model # Undefined =>
              IF Get(o.config.model) \notin ModelIds
              THEN (/\ p.apiKey # ""
                    /\ p.defaultVoice \in CatalogIds
                    /\ p.speed >= 25 /\ p.speed <= 400) =>
                       /\ ModelError(v)
                       /\ Lists(v.message, ModelIds)
              ELSE ~ModelError(v)

\* C5, what the code does: the statement holds of every model but ""
C5_NonEmptyUnknownModelFails ==
    lastInit # Undefined =>
        LET o == Get(lastInit)
            p == objects[o.object]
            v == validateConfig(p)
        IN  Truthy(o.config.model) =>
              IF Get(o.config.model) \notin ModelIds
              THEN (/\ p.apiKey # ""
                    /\ p.defaultVoice \in CatalogIds
                    /\ p.speed >= 25 /\ p.speed <= 400) =>
                       /\ ModelError(v)
                       /\ Lists(v.message, ModelIds)
              ELSE ~ModelError(v)

\* C5 witness: init has run on a config that is valid but for its model
\* "gpt-4o", and logged the error that lists the models
C5_Witness ==
    /\ lastInit # Undefined
    /\ Get(lastInit).config.model = Some("gpt-4o")
    /\ Logged(Get(lastInit).errors, <<"Invalid model">>)
    /\ Logged(Get(lastInit).errors, <<"tts-1-hd">>)

-----------------------------------------------------------------------------
(* Claims C6 - C10: synthesize *)

\* every string and number a request body of the model can carry
StringUniverse ==
    Texts \cup CatalogIds \cup ModelIds \cup {"pcm"}
    \cup UNION VoiceInputs \cup UNION ModelInputs \cup UNION InstructionsInputs
    \cup UNION OptionVoices \cup UNION OptionInstructions

NumberUniverse == UNION SpeedInputs \cup UNION OptionSpeeds \cup {100}

\* the literal of the member `key` of a JSON text, undefined if there is none
JSONmember(json, key) ==
    {json[i][2] : i \in {j \in 1..Len(json) : json[j][1] = key}}

ParseString(literal) == CHOOSE str \in StringUniverse : Quote(str) = literal

ParseNumber(literal) ==
    CHOOSE h \in NumberUniverse : FormatNumber(h) = literal

\* JSON.parse of a body text, as the server reads it
JSONparse(json) ==
    [model |-> ParseString(Get(JSONmember(json, "model"))),
     input |-> ParseString(Get(JSONmember(json, "input"))),
     voice |-> ParseString(Get(JSONmember(json, "voice"))),
     response_format |->
        ParseString(Get(JSONmember(json, "response_format"))),
     speed |-> ParseNumber(Get(JSONmember(json, "speed"))),
     instructions |->
        IF JSONmember(json, "instructions") = Undefined THEN Undefined
        ELSE Some(ParseString(Get(JSONmember(json, "instructions"))))]

\* the synthesize calls that have issued their request
Issued == {i \in DOMAIN calls : calls[i].kind = "synthesize"
                                /\ Len(calls[i].requests) > 0}

\* the body the server receives from call i
SentBody(i) == JSONparse(Get(calls[i].requests[1].body))

\* C6 (as stated): the body sent by synthesize(text, options) has voice =
\* options.voice when a per-call voice is supplied and the stored default
\* otherwise, speed = options.speed when a per-call speed is supplied and the
\* stored default otherwise, input = text and model = the configured model.
C6_BodyUsesOverrides ==
    \A i \in Issued :
        LET c == calls[i]
            p == objects[c.this]
            voice == OptionalChain(c.options, "voice")
            speed == OptionalChain(c.options, "speed")
        IN  /\ SentBody(i).voice
                 = (IF voice # Undefined THEN Get(voice) ELSE p.defaultVoice)
            /\ SentBody(i).speed
                 = (IF speed # Undefined THEN Get(speed) ELSE p.speed)
            /\ SentBody(i).input = c.text
            /\ SentBody(i).model = p.model

\* C6, what the code does: a per-call voice of "" and a per-call speed of 0
\* count as not supplied
C6_BodyUsesTruthyOverrides ==
    \A i \in Issued :
        LET c == calls[i]
            p == objects[c.this]
            voice == OptionalChain(c.options, "voice")
            speed == OptionalChain(c.options, "speed")
        IN  /\ SentBody(i).voice
                 = (IF Truthy(voice) THEN Get(voice) ELSE p.defaultVoice)
            /\ SentBody(i).speed
                 = (IF speed # Undefined /\ Get(speed) # 0 THEN Get(speed)
                    ELSE p.speed)
            /\ SentBody(i).input = c.text
            /\ SentBody(i).model = p.model
            /\ SentBody(i).response_format = "pcm"

\* C7 (as stated): the body has an instructions field iff the model is
\* exactly "gpt-4o-mini-tts" and the effective instructions, the per-call
\* ones when supplied and the stored default otherwise, are non-empty; the
\* field then equals the effective instructions; for the other models it is
\* left out and the request is sent all the same.
C7_InstructionsIffModel ==
    \A i \in Issued :
        LET c == calls[i]
            p == objects[c.this]
            perCall == OptionalChain(c.options, "instructions")
            effective == IF perCall # Undefined THEN perCall
                         ELSE p.instructions
        IN  /\ SentBody(i).instructions # Undefined
                 <=> (p.model = "gpt-4o-mini-tts" /\ Truthy(effective))
            /\ SentBody(i).instructions # Undefined
                 => SentBody(i).instructions = effective
            /\ Len(c.requests) = 1

\* C7 (amended): the same, the effective instructions being the per-call
\* ones when supplied and non-empty, and the stored default otherwise.
C7_InstructionsIffModelTruthy ==
    \A i \in Issued :
        LET c == calls[i]
            p == objects[c.this]
            perCall == OptionalChain(c.options, "instructions")
            effective == IF Truthy(perCall) THEN perCall ELSE p.instructions
        IN  /\ SentBody(i).instructions # Undefined
                 <=> (p.model = "gpt-4o-mini-tts" /\ Truthy(effective))
            /\ SentBody(i).instructions # Undefined
                 => SentBody(i).instructions = effective
            /\ Len(c.requests) = 1

\* C7 witness: a provider for tts-1 with stored instructions was called with
\* per-call instructions, and the body sent has no instructions field
C7_Witness ==
    \E i \in Issued :
        /\ objects[calls[i].this].model = "tts-1"
        /\ Truthy(objects[calls[i].this].instructions)
        /\ OptionalChain(calls[i].options, "instructions") = Some("Whisper")
        /\ SentBody(i).instructions = Undefined

C9_DurationFromLength ==
    \A i \in Issued :
        LET c == calls[i]
        IN  /\ c.pc = "returned" =>
                /\ c.response # Undefined
                /\ ResponseOk(Get(c.response))
                /\ c.result # Undefined
            /\ c.result # Undefined =>
                LET n == ByteLength(Get(c.response).body.bytes)
                    d == Get(c.result).durationMs
                IN  /\ 48 * d - 24 <= n
                    /\ n <= 48 * d + 24
                    /\ n = 48000 => d = 1000
                    /\ \A j \in Issued :
                         (calls[j].result # Undefined
                          /\ ByteLength(Get(calls[j].response).body.bytes) = n)
                            => Get(calls[j].result).durationMs = d
                    /\ Get(c.result).format = "pcm_s16le"
                    /\ Get(c.result).sampleRate = 24000
                    /\ Get(c.result).audio = Get(c.response).body.bytes

\* C9 witness: a synthesize call has returned for a payload of 48000 bytes
C9_Witness ==
    \E i \in Issued :
        /\ calls[i].pc = "returned"
        /\ ByteLength(Get(calls[i].response).body.bytes) = 48000
        /\ Get(calls[i].result).durationMs = 1000

\* C9, at a tie: a payload of 24024 bytes is 500.5 ms; the doubles of the
\* computation give 500.49999999999994, which Math.round takes to 500
C9_TieRoundsDown ==
    \A i \in Issued :
        (calls[i].result # Undefined
         /\ ByteLength(Get(calls[i].response).body.bytes) = 24024)
            => Get(calls[i].result).durationMs = 500

\* C10 (as stated): a synthesize invocation issues exactly one outbound
\* call, a POST to https://api.openai.com/v1/audio/speech with
\* "Authorization: Bearer <credential>" for the provider's credential and a
\* 30-second timeout, and never issues another, however the call ends.
C10_OnePostWithTimeout ==
    \A i \in DOMAIN calls :
        calls[i].kind = "synthesize" =>
            LET c == calls[i]
                p == objects[c.this]
            IN  /\ Len(c.requests) = 1
                /\ c.requests[1].url = "https://api.openai.com/v1/audio/speech"
                /\ c.requests[1].method = "POST"
                /\ c.requests[1].Authorization = "Bearer " \o p.apiKey
                /\ c.requests[1].signal = Some(30000)

\* C10, what both revisions do: the one POST, with the credential
C10_OnePost ==
    \A i \in DOMAIN calls :
        calls[i].kind = "synthesize" =>
            LET c == calls[i]
                p == objects[c.this]
            IN  /\ Len(c.requests) = 1
                /\ c.requests[1].url = "https://api.openai.com/v1/audio/speech"
                /\ c.requests[1].method = "POST"
                /\ c.requests[1].Authorization = "Bearer " \o p.apiKey
                /\ p.apiKey # ""
                /\ revision = "part_004" => c.requests[1].signal = Some(30000)

-----------------------------------------------------------------------------
(* Claims C11 - C12: the streaming adapter and healthCheck *)

\* the request synthesize(text, options) issues on the provider of call c
SynthesizeRequest(c) ==
    LET p == objects[c.this]
        body == synthesizeBody(p, c.text, c.options)
    IN  IF revision = "index_ts" THEN fetchInit_index_ts(p, body)
        ELSE fetchInit_part_004(p, body)

\* the streamSynthesize generators in use
Streams == {i \in DOMAIN calls : calls[i].kind = "streamSynthesize"}

\* C11: a streamSynthesize(text, options) generator performs one synthesize
\* call, with the same text and options, and no other; it yields one chunk,
\* the whole audio payload of that call's result, and then ends; when the
\* synthesis fails the failure is thrown to the consumer and no chunk has
\* been yielded.
C11_StreamOneChunk ==
    \A i \in Streams :
        LET c == calls[i]
        IN  /\ Len(c.requests) <= 1
            /\ c.pc = "created" <=> c.requests = <<>>
            /\ c.requests # <<>> => c.requests[1] = SynthesizeRequest(c)
            /\ Len(c.chunks) <= 1
            /\ c.pc \in {"created", "fetching", "reading", "threw"}
                 => c.chunks = <<>>
            /\ c.pc \in {"yielded", "returned"} =>
                 /\ Len(c.chunks) = 1
                 /\ c.result # Undefined
                 /\ c.chunks[1] = Get(c.result).audio
                 /\ c.chunks[1] = Get(c.response).body.bytes
                 /\ c.error = Undefined
            /\ c.pc = "threw" =>
                 /\ c.error # Undefined
                 /\ c.result = Undefined

\* C11 witness: a generator has yielded the 48000 bytes of its response as
\* its one chunk and has ended
C11_Witness ==
    \E i \in Streams :
        /\ calls[i].pc = "returned"
        /\ Len(calls[i].chunks) = 1
        /\ ByteLength(calls[i].chunks[1]) = 48000
        /\ calls[i].options # Undefined

\* C11, the failing case: a generator whose synthesis got a 401 has thrown
\* without a chunk
C11_FailedWitness ==
    \E i \in Streams :
        /\ calls[i].pc = "threw"
        /\ calls[i].response # Undefined
        /\ Get(calls[i].response).status = 401
        /\ calls[i].chunks = <<>>

\* the healthCheck calls in progress or done
HealthChecks == {i \in DOMAIN calls : calls[i].kind = "healthCheck"}

\* C12: healthCheck never raises: it issues one GET to the models endpoint,
\* with the credential and a 5-second timeout, and whatever the outcome it
\* returns a boolean: true exactly when a response arrived with a success
\* status, false for any other status, a transport error or the timeout.
C12_HealthCheckNeverRaises ==
    \A i \in HealthChecks :
        LET c == calls[i]
        IN  /\ c.pc \in {"fetching", "returned"}
            /\ c.error = Undefined
            /\ Len(c.requests) = 1
            /\ c.requests[1].url = "https://api.openai.com/v1/models"
            /\ c.requests[1].method = "GET"
            /\ c.requests[1].Authorization
                 = "Bearer " \o objects[c.this].apiKey
            /\ c.requests[1].signal = Some(5000)
            /\ c.pc = "fetching" => c.healthy = Undefined
            /\ c.pc = "returned" =>
                 /\ c.healthy \in {Some(TRUE), Some(FALSE)}
                 /\ c.healthy = Some(TRUE)
                      <=> /\ c.response # Undefined
                          /\ Get(c.response).status >= 200
                          /\ Get(c.response).status <= 299

\* C12 witness: a healthCheck whose fetch was rejected (network failure or
\* timeout: no response) has returned false
C12_Witness ==
    \E i \in HealthChecks :
        /\ calls[i].pc = "returned"
        /\ calls[i].response = Undefined
        /\ calls[i].healthy = Some(FALSE)

\* C12, the other cases: true on a 200, false on a 401
C12_StatusWitness ==
    \E i \in HealthChecks :
        /\ calls[i].pc = "returned"
        /\ calls[i].response # Undefined
        /\ Get(calls[i].response).status = 401
        /\ calls[i].healthy = Some(FALSE)

-----------------------------------------------------------------------------
(* Claims C13, C14, C16: shutdown *)

\* the last shutdown ran with the module's `provider` holding an object
\* that init had registered
ShutdownOfRegistered(s) ==
    s.before # Undefined /\ Get(s.before) \in hostProviders

\* no init has run since the last shutdown
JustShutDown(s) == s.inits = Len(objects)

\* what C13 says of the last shutdown
ShutdownUnregisters(s) ==
    /\ ~s.raised
    /\ ShutdownOfRegistered(s) => s.unregistered = <<"tts">>
    /\ JustShutDown(s) => provider = Undefined /\ ctx = Undefined
    /\ s.inits = 0 => s.unregistered = <<>>

\* C13 (as stated): a shutdown after an init that registered the provider
\* calls unregisterExtension("tts") on the host context and clears the
\* module's provider and context references; a shutdown with no init before
\* it completes without failing.
C13_ShutdownUnregisters ==
    lastShutdown # Undefined => ShutdownUnregisters(Get(lastShutdown))

\* C13, the revision that does it: the statement holds of
\* src/unnamed/part_004
C13_ShutdownUnregisters_part_004 ==
    (revision = "part_004" /\ lastShutdown # Undefined)
        => ShutdownUnregisters(Get(lastShutdown))

\* C13 witness for part_004: a shutdown of a registered provider has made
\* the unregister call
C13_Witness ==
    /\ revision = "part_004"
    /\ lastShutdown # Undefined
    /\ ShutdownOfRegistered(Get(lastShutdown))
    /\ Get(lastShutdown).unregistered = <<"tts">>
    /\ provider = Undefined
    /\ ctx = Undefined

\* C14: shutdown is idempotent: a shutdown that follows a shutdown, no init
\* between them, does not fail and has no effect: it makes no unregister
\* call and no network call, and leaves the module's provider and context,
\* the provider objects and the host's registry as the first one left them.
C14_ShutdownIdempotent ==
    [][(/\ shutdownCount' = shutdownCount + 1
        /\ lastShutdown # Undefined
        /\ JustShutDown(Get(lastShutdown)))
         => /\ provider' = provider
            /\ ctx' = ctx
            /\ unregisterCount' = unregisterCount
            /\ registerCount' = registerCount
            /\ hostProviders' = hostProviders
            /\ objects' = objects
            /\ calls' = calls
            /\ Get(lastShutdown').unregistered = <<>>
            /\ ~Get(lastShutdown').hostThrew
            /\ ~Get(lastShutdown').raised]_vars

\* C14 witness: after an init that registered, shutdown has run twice in
\* succession
C14_Witness ==
    /\ lastShutdown # Undefined
    /\ Get(lastShutdown).repeat
    /\ Get(lastShutdown).inits >= 1
    /\ registerCount >= 1
    /\ shutdownCount = 2

\* C16 (as stated): shutdown calls the host's unregister only when a
\* registration made by a preceding init is outstanding: a shutdown after an
\* init whose validation failed, or after another shutdown, makes no
\* unregister call, and the unregister calls never outnumber the successful
\* registrations.
C16_UnregisterOnlyOutstanding ==
    /\ unregisterCount <= registerCount
    /\ lastShutdown # Undefined =>
         LET s == Get(lastShutdown)
         IN  /\ (s.before # Undefined /\ Get(s.before) \notin hostProviders)
                  => s.unregistered = <<>>
             /\ s.repeat => s.unregistered = <<>>

\* C16, what the code does: shutdown makes its unregister call when an init
\* has run since the last shutdown, whether or not that init registered
C16_UnregisterOnlyAfterInit ==
    /\ unregisterCount <= Len(objects)
    /\ lastShutdown # Undefined =>
         LET s == Get(lastShutdown)
         IN  /\ s.unregistered # <<>>
                  => (revision = "part_004" /\ s.before # Undefined)
             /\ s.repeat => s.unregistered = <<>>

\* C16, the failing case is reached: an unregister call with no
\* registration ever made
C16_UnregisterWithoutRegistration ==
    /\ registerCount = 0
    /\ unregisterCount = 1
    /\ lastShutdown # Undefined
    /\ Get(lastShutdown).unregistered = <<"tts">>

-----------------------------------------------------------------------------
(* Claim C17: per-call overrides *)

\* C17 (as stated): every body synthesize sends on a provider that passed
\* validation has a voice among the 13 catalog ids and a speed in
\* [0.25, 4.0], whatever options the caller passes.
C17_BodyVoiceAndSpeedValid ==
    \A i \in Issued :
        /\ SentBody(i).voice \in CatalogIds
        /\ SentBody(i).speed >= 25
        /\ SentBody(i).speed <= 400

\* C17, what the code does: the voice and the speed of the body are valid
\* when they are the stored defaults, that is when the call has no override
\* (or a falsy one) for them
C17_DefaultsValid ==
    \A i \in Issued :
        LET c == calls[i]
        IN  /\ ~Truthy(OptionalChain(c.options, "voice"))
                 => SentBody(i).voice \in CatalogIds
            /\ (\/ OptionalChain(c.options, "speed") = Undefined
                \/ OptionalChain(c.options, "speed") = Some(0))
                 => (SentBody(i).speed >= 25 /\ SentBody(i).speed <= 400)

\* C17, the failing case is reached: a body with the voice "robot" was sent
C17_InvalidVoiceSent ==
    \E i \in Issued :
        /\ calls[i].this \in hostProviders
        /\ ~validateConfig(objects[calls[i].this]).threw
        /\ SentBody(i).voice = "robot"

-----------------------------------------------------------------------------
(* Claim C15: concurrent calls *)

\* the calls in progress or settled
Active == {i \in DOMAIN calls : calls[i].kind # "none"}

\* the request, and the result or error, of call c are what its own
\* arguments, the provider's configuration and its own response give
OwnOutcome(c) ==
    /\ c.kind \in {"synthesize", "streamSynthesize"} =>
         /\ c.requests # <<>> => c.requests = <<SynthesizeRequest(c)>>
         /\ c.result # Undefined =>
              /\ c.response # Undefined
              /\ Get(c.result).audio = Get(c.response).body.bytes
              /\ 48 * Get(c.result).durationMs - 24
                   <= ByteLength(Get(c.response).body.bytes)
              /\ ByteLength(Get(c.response).body.bytes)
                   <= 48 * Get(c.result).durationMs + 24
         /\ (c.pc = "threw" /\ c.response # Undefined) =>
              Get(c.error).message
                = <<"OpenAI TTS failed: ", ToString(Get(c.response).status),
                    " - ", Get(c.response).body.text>>
         /\ c.chunks # <<>> => c.chunks = <<Get(c.response).body.bytes>>
    /\ c.kind = "healthCheck" =>
         /\ c.requests = <<healthCheckRequest(objects[c.this])>>
         /\ c.healthy # Undefined =>
              c.healthy = Some(/\ c.response # Undefined
                               /\ ResponseOk(Get(c.response)))

\* two calls with the same arguments on the same provider issue the same
\* request, and with the same response at the same point have the same
\* result, error and chunks
SameInSameOut(c, d) ==
    (c.kind = d.kind /\ c.this = d.this /\ c.text = d.text
     /\ c.options = d.options) =>
        /\ (c.requests # <<>> /\ d.requests # <<>>)
             => c.requests = d.requests
        /\ (c.response # Undefined /\ c.response = d.response
            /\ c.pc = d.pc)
             => /\ c.result = d.result
                /\ c.error = d.error
                /\ c.chunks = d.chunks
                /\ c.healthy = d.healthy

\* a step of one call leaves every other call, and the provider, as it was
OneCallSteps ==
    \A i \in DOMAIN calls :
        calls'[i] # calls[i] =>
            /\ \A j \in DOMAIN calls \ {i} : calls'[j] = calls[j]
            /\ objects' = objects
            /\ provider' = provider
            /\ hostProviders' = hostProviders

\* C15: in every interleaving of concurrent synthesize, streamSynthesize
\* and healthCheck calls on one provider, each call's request and its result
\* or error are determined by its own arguments, the provider's
\* configuration and its own response; a step of one call changes no other
\* call, and the provider's configuration stays what it was.
C15_CallsIndependent ==
    /\ [](\A i \in Active : OwnOutcome(calls[i]))
    /\ [](\A i \in Active : \A j \in Active :
             SameInSameOut(calls[i], calls[j]))
    /\ [][OneCallSteps]_vars
    /\ [][\A id \in 1..Len(objects) : objects'[id] = objects[id]]_vars

\* C15 witness: two synthesize calls on the same provider overlapped and
\* got different responses: the first has returned its 48000 bytes, the
\* second has failed on its 401
C15_Witness ==
    /\ calls[1].kind = "synthesize"
    /\ calls[2].kind = "synthesize"
    /\ calls[1].this = calls[2].this
    /\ calls[1].pc = "returned"
    /\ ByteLength(Get(calls[1].result).audio) = 48000
    /\ calls[2].pc = "threw"
    /\ calls[2].response # Undefined

\* C15, two overlapping calls with two successful responses: each has the
\* bytes of its own response
C15_TwoResultsWitness ==
    /\ calls[1].kind = "streamSynthesize"
    /\ calls[2].kind = "synthesize"
    /\ calls[1].pc = "yielded"
    /\ calls[2].pc = "returned"
    /\ ByteLength(calls[1].chunks[1]) = 48000
    /\ ByteLength(Get(calls[2].result).audio) = 24

====
